---- MODULE Spec2Model ----
(***************************************************************************)
(* Model of analysis/measure_def.py: the definition of the measure         *)
(* "primary_atorvastatin_20".  The script builds per-patient column        *)
(* expressions over the tables patients, practice_registrations,          *)
(* addresses, clinical_events and medications, and registers a numerator   *)
(* and a denominator that the measures engine evaluates once per 2-month   *)
(* interval.  The state is one patient's rows in those tables (a fixed     *)
(* snapshot), the interval being evaluated and the row the engine          *)
(* produced for it.  Column values are three-valued (T, F, NULL), as in    *)
(* the query language the script is written in.                            *)
(*                                                                         *)
(* Dates are day numbers.  Day 0 is the first day of the month that lies   *)
(* LookbackMonths before 2018-01-01; every month has DaysPerMonth days.    *)
(***************************************************************************)
EXTENDS Integers, FiniteSets, Sequences

VARIABLES patients, practice_registrations, addresses, clinical_events,
          medications, interval, measure

vars == <<patients, practice_registrations, addresses, clinical_events,
          medications, interval, measure>>

---------------------------------------------------------------------------
(* Bounds of the model *)
DaysPerMonth == 2
NumIntervals == 2
MaxAge == 90
MaxImd == 32845

(* Constants of the script *)
LookbackMonths == 3
IntervalMonths == 2
QriskLow == 5
QriskHigh == 10
AgeLow == 40
AgeHigh == 85
ImdCeiling == 32844

---------------------------------------------------------------------------
(* Three-valued column values *)
T == "T"
F == "F"
NULL == "NULL"
Bool3 == {T, F, NULL}

NoDate == -1
NoValue == -1
NoImd == -1

B3(b) == IF b THEN T ELSE F

AndRule(a, b) ==
    IF a = F \/ b = F THEN F
    ELSE IF a = T /\ b = T THEN T
    ELSE NULL
AndTable == [p \in Bool3 \X Bool3 |-> AndRule(p[1], p[2])]
And3(a, b) == AndTable[<<a, b>>]

OrRule(a, b) ==
    IF a = T \/ b = T THEN T
    ELSE IF a = F /\ b = F THEN F
    ELSE NULL
OrTable == [p \in Bool3 \X Bool3 |-> OrRule(p[1], p[2])]
Or3(a, b) == OrTable[<<a, b>>]

NotTable == [a \in Bool3 |-> IF a = T THEN F ELSE IF a = F THEN T ELSE NULL]
Not3(a) == NotTable[a]

(* comparisons: NULL when either side is absent *)
Cmp3(a, b, holds) == IF a = NoDate \/ b = NoDate THEN NULL ELSE B3(holds)
Gt3(a, b) == LET x == a  y == b IN Cmp3(x, y, x > y)
Le3(a, b) == LET x == a  y == b IN Cmp3(x, y, x <= y)
Ge3(a, b) == LET x == a  y == b IN Cmp3(x, y, x >= y)
Lt3(a, b) == LET x == a  y == b IN Cmp3(x, y, x < y)

is_on_or_before(d, e) == Le3(d, e)
is_on_or_between(d, lo, hi) == And3(Ge3(d, lo), Le3(d, hi))

(* aggregations over a patient's rows *)
exists_for_patient(rows) == B3(rows # {})
maximum_for_patient(ds) ==
    IF ds \ {NoDate} = {} THEN NoDate
    ELSE CHOOSE d \in ds \ {NoDate} : \A e \in ds \ {NoDate} : e <= d

---------------------------------------------------------------------------
(* Calendar *)
MaxDate == (LookbackMonths + IntervalMonths * NumIntervals) * DaysPerMonth
Dates == 0..MaxDate
StudyStart == LookbackMonths * DaysPerMonth

months(n) == n * DaysPerMonth

(* intervals = months(2).starting_on("2018-01-01") *)
intervals(i) ==
    [start_date |-> StudyStart + i * months(IntervalMonths),
     end_date   |-> StudyStart + (i + 1) * months(IntervalMonths) - 1]

INTERVAL == intervals(interval)

---------------------------------------------------------------------------
(* Codelists: one representative code per CSV file *)
atorvastatin_20_codes == {"atorvastatin20"}
qrisk_scores == {"qrisk"}
chd_cod == {"chd"}
estrk_cod == {"estrk"}
tia_cod == {"tia"}
pad_cod == {"pad"}
dmtype1_cod == {"dmtype1"}
ckd12_cod == {"ckd12"}
ckd_cod == {"ckd"}
ckdres_cod == {"ckdres"}
classfh_cod == {"classfh"}
famhypgen_cod == {"famhypgen"}
possfh_cod == {"possfh"}
famhypref_cod == {"famhypref"}

OtherCode == "other"
OtherDmd == "otherdmd"

---------------------------------------------------------------------------
(* Numerator: patients with a prescription of atorvastatin 20mg *)
is_during(d, iv) == is_on_or_between(d, iv.start_date, iv.end_date)

BadDuring_atorvastatin_20 ==
    exists_for_patient({m \in medications :
        And3(B3(m.dmd_code \in atorvastatin_20_codes),
             And3(Ge3(m.date, INTERVAL.start_date),
                  Lt3(m.date, INTERVAL.end_date))) = T})
atorvastatin_20 ==
    exists_for_patient({m \in medications :
        And3(B3(m.dmd_code \in atorvastatin_20_codes),
             is_during(m.date, INTERVAL)) = T})

(* Denominator: inclusion criteria *)
is_alive_on(d) ==
    Or3(Gt3(patients.date_of_death, d), B3(patients.date_of_death = NoDate))

is_alive == is_alive_on(INTERVAL.start_date)

NoRow == [snomedct_code |-> NULL, date |-> NoDate, numeric_value |-> NoValue]

last_for_patient(rows) ==
    IF rows = {} THEN NoRow
    ELSE CHOOSE r \in rows : \A s \in rows : s.date <= r.date

qrisk_5_10 ==
    last_for_patient({e \in clinical_events :
        And3(B3(e.snomedct_code \in qrisk_scores),
        And3(Gt3(e.numeric_value, QriskLow),
        And3(Lt3(e.numeric_value, QriskHigh),
             is_on_or_between(e.date,
                              INTERVAL.start_date - months(LookbackMonths),
                              INTERVAL.start_date)))) = T})

BadLookback_is_registered ==
    exists_for_patient(
        {r \in practice_registrations :
            is_on_or_before(r.start_date, INTERVAL.start_date) = T}
        \ {r \in practice_registrations :
            is_on_or_before(r.end_date, INTERVAL.start_date) = T})
is_registered ==
    exists_for_patient(
        {r \in practice_registrations :
            is_on_or_before(r.start_date,
                            INTERVAL.start_date - months(LookbackMonths)) = T}
        \ {r \in practice_registrations :
            is_on_or_before(r.end_date, INTERVAL.start_date) = T})

(* whole years from the date of birth to d *)
age_on(d) ==
    LET mD == d \div DaysPerMonth
        mB == patients.date_of_birth \div DaysPerMonth
        dD == d % DaysPerMonth
        dB == patients.date_of_birth % DaysPerMonth
    IN  (mD - mB - (IF dD < dB THEN 1 ELSE 0)) \div 12

has_possible_age ==
    And3(B3(age_on(INTERVAL.start_date) < AgeHigh),
         B3(age_on(INTERVAL.start_date) >= AgeLow))

non_disclosive_sex == Or3(B3(patients.sex = "male"), B3(patients.sex = "female"))

---------------------------------------------------------------------------
(* Registers: a coded event on or before the given date *)
on_or_before(codelist, d) ==
    {e \in {c \in clinical_events : c.snomedct_code \in codelist} :
        is_on_or_before(e.date, d) = T}

Windowed_reg(codelist, d) ==
    exists_for_patient({e \in on_or_before(codelist, d) :
        e.date >= d - months(LookbackMonths)})
reg(codelist, d) == exists_for_patient(on_or_before(codelist, d))

dat(codelist, d) == maximum_for_patient({e.date : e \in on_or_before(codelist, d)})

chd_reg == reg(chd_cod, INTERVAL.start_date)

estrk == reg(estrk_cod, INTERVAL.start_date)
tia == reg(tia_cod, INTERVAL.start_date)
stroke_reg == Or3(estrk, tia)

pad_reg == reg(pad_cod, INTERVAL.start_date)

dmtype1_reg == reg(dmtype1_cod, INTERVAL.start_date)

ckd_on(d) == reg(ckd_cod, d)
ckd_dat_on(d) == dat(ckd_cod, d)
ckd12_dat_on(d) == dat(ckd12_cod, d)
ckdres_dat_on(d) == dat(ckdres_cod, d)

ckd_reg_on(d) ==
    And3(And3(ckd_on(d), Gt3(ckd_dat_on(d), ckd12_dat_on(d))),
         Gt3(ckd_dat_on(d), ckdres_dat_on(d)))

ckd == ckd_on(INTERVAL.start_date)
ckd_dat == ckd_dat_on(INTERVAL.start_date)
ckd12_dat == ckd12_dat_on(INTERVAL.start_date)
ckdres_dat == ckdres_dat_on(INTERVAL.start_date)
ckd_reg == ckd_reg_on(INTERVAL.start_date)

famhypgen == reg(famhypgen_cod, INTERVAL.start_date)
classfh == reg(classfh_cod, INTERVAL.start_date)
possfh == reg(possfh_cod, INTERVAL.start_date)
famhypref == reg(famhypref_cod, INTERVAL.start_date)
famhyp_reg == Or3(Or3(Or3(famhypgen, classfh), possfh), famhypref)

(* define denominator *)
NoChd_primary_denominator ==
    And3(And3(And3(And3(And3(is_registered,
        Not3(stroke_reg)),
        Not3(pad_reg)),
        Not3(dmtype1_reg)),
        Not3(ckd_reg)),
        Not3(famhyp_reg))
primary_denominator ==
    And3(And3(And3(And3(And3(And3(is_registered,
        Not3(chd_reg)),
        Not3(stroke_reg)),
        Not3(pad_reg)),
        Not3(dmtype1_reg)),
        Not3(ckd_reg)),
        Not3(famhyp_reg))

---------------------------------------------------------------------------
(* Subgroups *)

(* case(when(c1).then(l1), ..., otherwise=o): the first condition that is
   true decides; a condition that is false or NULL is passed over *)
RECURSIVE case(_, _)
case(whens, otherwise) ==
    IF whens = << >> THEN otherwise
    ELSE IF Head(whens)[1] = T THEN Head(whens)[2]
    ELSE case(Tail(whens), otherwise)

age == age_on(INTERVAL.start_date)

GapAt45_age_band_whens(a) ==
    << <<B3(a < 45), "0-44">>,
       <<And3(B3(a > 45), B3(a < 65)), "45-64">>,
       <<And3(B3(a >= 65), B3(a < 75)), "65-74">>,
       <<And3(B3(a >= 75), B3(a < 85)), "75-84">>,
       <<B3(a >= 85), "85+">> >>
age_band_whens(a) ==
    << <<B3(a < 45), "0-44">>,
       <<And3(B3(a >= 45), B3(a < 65)), "45-64">>,
       <<And3(B3(a >= 65), B3(a < 75)), "65-74">>,
       <<And3(B3(a >= 75), B3(a < 85)), "75-84">>,
       <<B3(a >= 85), "85+">> >>

age_band_of(a) == case(age_band_whens(a), NULL)
age_band == age_band_of(age)

imd == addresses.imd_rounded

(* int(32844 * k / 10) *)
Rounded_ImdCut(k) == (ImdCeiling * k + 5) \div 10
ImdCut(k) == (ImdCeiling * k) \div 10

IMD_q10_whens(x) ==
    << <<And3(Ge3(x, 0), Lt3(x, ImdCut(1))), "1 (most deprived)">>,
       <<Lt3(x, ImdCut(2)), "2">>,
       <<Lt3(x, ImdCut(3)), "3">>,
       <<Lt3(x, ImdCut(4)), "4">>,
       <<Lt3(x, ImdCut(5)), "5">>,
       <<Lt3(x, ImdCut(6)), "6">>,
       <<Lt3(x, ImdCut(7)), "7">>,
       <<Lt3(x, ImdCut(8)), "8">>,
       <<Lt3(x, ImdCut(9)), "9">>,
       <<Ge3(x, ImdCut(9)), "10 (least deprived)">> >>

IMD_q10_of(x) == case(IMD_q10_whens(x), "unknown")
IMD_q10 == IMD_q10_of(imd)

sex == patients.sex

---------------------------------------------------------------------------
(* Create measures: the row of "primary_atorvastatin_20" for the interval *)
define_measure ==
    [numerator |-> atorvastatin_20, denominator |-> primary_denominator]

---------------------------------------------------------------------------
(* The data snapshot: one patient's rows *)
BasePatient ==
    [date_of_birth |-> 0 - 12 * 50 * DaysPerMonth, sex |-> "female",
     date_of_death |-> NoDate]
BaseRegistrations == {[start_date |-> 0, end_date |-> NoDate]}
BaseAddress == [imd_rounded |-> 0]

SimpleCodes ==
    chd_cod \cup estrk_cod \cup tia_cod \cup pad_cod \cup dmtype1_cod
    \cup classfh_cod \cup famhypgen_cod \cup possfh_cod \cup famhypref_cod
    \cup {OtherCode}

SimpleEvents ==
    [snomedct_code : SimpleCodes, date : Dates, numeric_value : {NoValue}]
    \cup [snomedct_code : qrisk_scores, date : Dates,
          numeric_value : QriskLow..QriskHigh]

EventsOf(codelist) ==
    [snomedct_code : codelist, date : Dates, numeric_value : {NoValue}]

AtMostOne(S) == {{}} \cup {{a} : a \in S}
AtMostTwo(S) == {{}} \cup {{a, b} : a, b \in S}

Start ==
    /\ interval = 0
    /\ measure = define_measure

(* a patient with up to two coded events outside the kidney codelists *)
InitSimple ==
    /\ patients = BasePatient
    /\ practice_registrations = BaseRegistrations
    /\ addresses = BaseAddress
    /\ medications = {}
    /\ clinical_events \in AtMostTwo(SimpleEvents)
    /\ Start

(* a patient with at most one code from each kidney codelist *)
InitCkd ==
    /\ patients = BasePatient
    /\ practice_registrations = BaseRegistrations
    /\ addresses = BaseAddress
    /\ medications = {}
    /\ clinical_events \in
         {a \cup b \cup c :
              a \in AtMostOne(EventsOf(ckd_cod)),
              b \in AtMostOne(EventsOf(ckd12_cod)),
              c \in AtMostOne(EventsOf(ckdres_cod))}
    /\ Start

(* a patient whose record may open, on day 0, with a CKD 1-2 code and a
   heart-disease code, and holds a CKD code and up to two resolved codes *)
Opening(codelist) == {e \in EventsOf(codelist) : e.date = 0}

InitLapse ==
    /\ patients = BasePatient
    /\ practice_registrations = BaseRegistrations
    /\ addresses = BaseAddress
    /\ medications = {}
    /\ clinical_events \in
         {a \cup b \cup c \cup h :
              a \in AtMostOne(EventsOf(ckd_cod)),
              b \in AtMostOne(Opening(ckd12_cod)),
              c \in AtMostTwo(EventsOf(ckdres_cod)),
              h \in AtMostOne(Opening(chd_cod))}
    /\ Start

Init == InitSimple \/ InitCkd \/ InitLapse

(* patients of every age, sex and date of death *)
Sexes == {"female", "male", "intersex", "unknown"}

InitDemographics ==
    /\ patients \in
         [date_of_birth : {0 - m * DaysPerMonth : m \in 0..(12 * MaxAge)},
          sex : Sexes,
          date_of_death : Dates \cup {NoDate}]
    /\ practice_registrations = BaseRegistrations
    /\ addresses = BaseAddress
    /\ medications = {}
    /\ clinical_events = {}
    /\ Start

(* patients with up to two registrations, ended or not *)
Registrations ==
    {r \in [start_date : Dates, end_date : Dates \cup {NoDate}] :
        r.end_date = NoDate \/ r.start_date <= r.end_date}

InitRegistration ==
    /\ patients = BasePatient
    /\ practice_registrations \in AtMostTwo(Registrations)
    /\ addresses = BaseAddress
    /\ medications = {}
    /\ clinical_events = {}
    /\ Start

(* patients with up to two medication rows, in and out of the denominator *)
Prescriptions ==
    [dmd_code : atorvastatin_20_codes \cup {OtherDmd},
     date : Dates \cup {NoDate}]

InitNumerator ==
    /\ patients = BasePatient
    /\ practice_registrations \in {BaseRegistrations, {}}
    /\ addresses = BaseAddress
    /\ medications \in AtMostTwo(Prescriptions)
    /\ clinical_events \in AtMostOne(EventsOf(chd_cod))
    /\ Start

(* patients at every deprivation score, or with none *)
InitDeprivation ==
    /\ patients = BasePatient
    /\ practice_registrations = BaseRegistrations
    /\ addresses \in [imd_rounded : (0..MaxImd) \cup {NoImd}]
    /\ medications = {}
    /\ clinical_events = {}
    /\ Start

(* the engine moves on to the next interval and evaluates the measure *)
NextInterval ==
    /\ interval + 1 < NumIntervals
    /\ interval' = interval + 1
    /\ UNCHANGED <<patients, practice_registrations, addresses,
                   clinical_events, medications>>
    /\ measure' = define_measure'

Next == NextInterval

Spec == Init /\ [][Next]_vars
SpecDemographics == InitDemographics /\ [][Next]_vars
SpecRegistration == InitRegistration /\ [][Next]_vars
SpecNumerator == InitNumerator /\ [][Next]_vars
SpecDeprivation == InitDeprivation /\ [][Next]_vars

---------------------------------------------------------------------------
(* Properties *)

SimpleRegisterTrue ==
    \/ chd_reg = T
    \/ stroke_reg = T
    \/ pad_reg = T
    \/ dmtype1_reg = T
    \/ famhyp_reg = T

HasEventOnOrBefore(codelist, d) ==
    \E e \in clinical_events : e.snomedct_code \in codelist /\ e.date <= d

(* C1: when the denominator of the interval is true, none of the six
   exclusion registers is true as of the interval start; a patient with a
   CHD code dated on or before the interval start has denominator false. *)
C1_DenominatorExcludesRegisters ==
    /\ measure.denominator = T =>
          /\ ~SimpleRegisterTrue
          /\ ckd_reg # T
    /\ HasEventOnOrBefore(chd_cod, INTERVAL.start_date) =>
          measure.denominator = F

(* a later interval whose denominator is true although the patient has a CHD
   code, dated after the interval start *)
C1_Witness ==
    /\ interval > 0
    /\ measure.denominator = T
    /\ \E e \in clinical_events : e.snomedct_code \in chd_cod

(* C2: when the denominator is true the patient is aged 40 to 84 on the
   interval start and is male or female. *)
C2_DenominatorAgeAndSex ==
    measure.denominator = T =>
        /\ age >= AgeLow
        /\ age < AgeHigh
        /\ sex \in {"male", "female"}

(* C3: when the denominator is true the patient has a risk-score
   observation with a value strictly between 5 and 10, dated in the three
   months up to the interval start. *)
C3_DenominatorHasQrisk ==
    measure.denominator = T =>
        \E e \in clinical_events :
            /\ e.snomedct_code \in qrisk_scores
            /\ e.numeric_value > QriskLow
            /\ e.numeric_value < QriskHigh
            /\ e.date >= INTERVAL.start_date - months(LookbackMonths)
            /\ e.date <= INTERVAL.start_date

(* C4: when the denominator is true the patient is alive on the interval
   start date. *)
C4_DenominatorIsAlive ==
    measure.denominator = T => is_alive = T

(* C5: ckd_reg is the definite boolean (D1 exists and D1 > D2 and D1 > D3),
   an absent D2 or D3 counting as earlier than every date, where D1, D2 and
   D3 are the latest CKD, CKD 1-2 and CKD-resolved dates on or before the
   interval start. *)
C5_CkdRegDefinite ==
    ckd_reg = B3(/\ ckd_dat # NoDate
                 /\ (ckd12_dat = NoDate \/ ckd_dat > ckd12_dat)
                 /\ (ckdres_dat = NoDate \/ ckd_dat > ckdres_dat))

(* C6: the numerator is true exactly when some medication row has a code of
   the atorvastatin 20mg codelist and a date from the interval's first day
   to its last day, both included, whatever the denominator is. *)
C6_NumeratorExact ==
    measure.numerator =
        B3(\E m \in medications :
              /\ m.dmd_code \in atorvastatin_20_codes
              /\ m.date # NoDate
              /\ m.date >= INTERVAL.start_date
              /\ m.date <= INTERVAL.end_date)

(* a later interval whose numerator is true through a row dated on the
   interval's last day, for a patient outside the denominator *)
C6_Witness ==
    /\ interval > 0
    /\ measure.numerator = T
    /\ measure.denominator = F
    /\ \A m \in medications :
          m.dmd_code \in atorvastatin_20_codes => m.date = INTERVAL.end_date

(* C7: on the scores 0 .. 32843 the decile mapping is total and monotonic:
   the score gets the label k whose range [int(32844(k-1)/10),
   int(32844k/10)) holds it, never "unknown"; the score below it gets the
   same or the previous label; 0 is in decile 1 and 32843 in decile 10. *)
DecileLabels ==
    << "1 (most deprived)", "2", "3", "4", "5", "6", "7", "8", "9",
       "10 (least deprived)" >>
DecileCuts ==
    << 0, 3284, 6568, 9853, 13137, 16422, 19706, 22990, 26275, 29559, 32844 >>
DecileRank(label) == CHOOSE k \in 1..10 : DecileLabels[k] = label

C7_DecilesTotalMonotonic ==
    (imd # NoImd /\ imd >= 0 /\ imd < 32844) =>
        /\ \E k \in 1..10 : IMD_q10 = DecileLabels[k]
        /\ \A k \in 1..10 :
              IMD_q10 = DecileLabels[k]
                 <=> (DecileCuts[k] <= imd /\ imd < DecileCuts[k + 1])
        /\ imd > 0 =>
              /\ IMD_q10_of(imd - 1) \in {DecileLabels[k] : k \in 1..10}
              /\ DecileRank(IMD_q10_of(imd - 1)) <= DecileRank(IMD_q10)
        /\ imd = 0 => IMD_q10 = "1 (most deprived)"
        /\ imd = 32843 => IMD_q10 = "10 (least deprived)"

(* the highest score below the ceiling, evaluated at a later interval *)
C7_Witness ==
    /\ interval > 0
    /\ imd = 32843
    /\ IMD_q10 = "10 (least deprived)"

(* C8: every age from 0 up satisfies exactly one of the five conditions of
   age_band and gets that band; the band changes exactly at 45, 65, 75
   and 85. *)
C8_AgeBandPartition ==
    age >= 0 =>
        /\ Cardinality({i \in 1..5 : age_band_whens(age)[i][1] = T}) = 1
        /\ age_band = (IF age <= 44 THEN "0-44"
                       ELSE IF age <= 64 THEN "45-64"
                       ELSE IF age <= 74 THEN "65-74"
                       ELSE IF age <= 84 THEN "75-84"
                       ELSE "85+")
        /\ (age_band_of(age + 1) # age_band) <=> (age + 1 \in {45, 65, 75, 85})

(* a patient who has turned 85 by a later interval *)
C8_Witness ==
    /\ interval > 0
    /\ age = 85
    /\ age_band = "85+"

(* C9: is_registered is true exactly when some registration started on or
   before the interval start minus 3 months and has no end date or one
   after the interval start; when it is false the denominator is false. *)
C9_RegisteredExact ==
    /\ is_registered =
          B3(\E r \in practice_registrations :
                /\ r.start_date <= INTERVAL.start_date - months(LookbackMonths)
                /\ (r.end_date = NoDate \/ r.end_date > INTERVAL.start_date))
    /\ is_registered # T => measure.denominator = F

(* a later interval at which one registration has ended on the interval
   start and another, begun exactly 3 months before it, still runs *)
C9_Witness ==
    /\ interval > 0
    /\ is_registered = T
    /\ measure.denominator = T
    /\ \E r \in practice_registrations : r.end_date = INTERVAL.start_date
    /\ \E r \in practice_registrations :
          /\ r.start_date = INTERVAL.start_date - months(LookbackMonths)
          /\ r.end_date # NoDate
          /\ r.end_date > INTERVAL.start_date

(* C10: from one interval to the next a simple register that is true stays
   true, and a patient for whom one of them is true is not in the
   denominator of the next interval. *)
C10_SimpleRegistersMonotone ==
    [][ /\ chd_reg = T => chd_reg' = T
        /\ stroke_reg = T => stroke_reg' = T
        /\ pad_reg = T => pad_reg' = T
        /\ dmtype1_reg = T => dmtype1_reg' = T
        /\ famhyp_reg = T => famhyp_reg' = T
        /\ SimpleRegisterTrue => measure'.denominator # T ]_vars

(* a later interval at which chd_reg has stayed true while ckd_reg, true at
   the interval before, is false *)
C10_Witness ==
    /\ interval > 0
    /\ reg(chd_cod, intervals(interval - 1).start_date) = T
    /\ chd_reg = T
    /\ ckd_reg_on(intervals(interval - 1).start_date) = T
    /\ ckd_reg = F

====
